---------------------------- MODULE Spec2Model ----------------------------
(***************************************************************************)
(* A model of install_ghidra.py: the Downloader (download_file with        *)
(* verify_checksum / calculate_sha256), the gzip-tar extractor             *)
(* (extract_tar_gz, i.e. tarfile.extractall with filter='data'), the       *)
(* Native Build Invoker (build_native_binaries), the Permission Setter     *)
(* (add_execute_permissions) and the orchestrator main().                  *)
(*                                                                         *)
(* Three specifications share the variables:                               *)
(*   Spec     main() from process start to process exit;                   *)
(*   SpecDL   one call of download_file with arbitrary arguments and an    *)
(*            arbitrary destination;                                       *)
(*   SpecTar  one call of extract_tar_gz on an arbitrary archive.          *)
(***************************************************************************)
EXTENDS Naturals, Sequences, FiniteSets

(***************************************************************************)
(* Values                                                                  *)
(***************************************************************************)

\* Python's None (default of expected_sha256 and file_name, argument of exit()).
None == "<None>"

\* os.path.exists(dest) is false: no file at the path.
Absent == "<absent>"

\* The byte contents a file or a network transfer may have.
Contents == {"c1", "c2", "c3"}

\* hashlib.sha256 of a content, as the hex digest string (collision-free on
\* the contents of the model).
CalculateSha256(content) ==
    CASE content = "c1" -> "h1"
      [] content = "c2" -> "h2"
      [] content = "c3" -> "h3"

Digests == {CalculateSha256(c) : c \in Contents}

java_expected_sha256 == CalculateSha256("c1")
ghidra_expected_sha256 == CalculateSha256("c2")

\* The two archive paths under temp_dir.
ArchivePaths == {"openjdk.tar.gz", "ghidra.zip"}

\* Python truthiness of an optional string argument: None and "" are falsy.
Truthy(x) == x # None /\ x # ""

\* The values a caller may pass as expected_sha256 and as file_name.
ExpectedArgs == {None, ""} \cup Digests
LabelArgs == {None, "", "OpenJDK"}

(***************************************************************************)
(* State                                                                   *)
(***************************************************************************)
VARIABLES
    files,            \* archive path -> content, or Absent
    dlpc,             \* position inside download_file
    dlDest,           \* download_file: dest
    dlExp,            \* download_file: expected_sha256
    dlLabel,          \* download_file: file_name
    dlInit,           \* content at dest when download_file was entered
    events,           \* os.remove / urlretrieve calls of this invocation, in order
    readErr,          \* a read of the file failed inside verify_checksum
    netTotal,         \* urlretrieve calls of the whole process
    pc,               \* position inside main()
    trace,            \* the phases main() has started, in order
    failedAt,         \* the phase whose exception reached an except block of main
    exitStatus,       \* {the exit status of the process}, {} while it runs
    successReported,  \* line 237 was printed
    runtimeCopied,    \* copytree of the JDK into the bundle has completed
    fsdirs,           \* which of the work/bundle directories exist
    build,            \* what build_native_binaries found and did (a record)
    permFailed,       \* paths whose chmod +x failed inside add_execute_permissions
    tpc,              \* position inside extract_tar_gz
    archive,          \* the members of the tar archive, in order
    tidx,             \* index of the member extractall is at
    written           \* files written by the extraction: [idx, path]

dlVars == <<files, dlpc, dlDest, dlExp, dlLabel, dlInit, events, readErr, netTotal>>
mainVars == <<pc, trace, failedAt, exitStatus, successReported, runtimeCopied,
              fsdirs, build, permFailed>>
tarVars == <<tpc, archive, tidx, written>>
vars == <<dlVars, mainVars, tarVars>>

(***************************************************************************)
(* Values of the variables a specification does not use                    *)
(***************************************************************************)
\* build before build_native_binaries has been called.
NoBuild ==
    [done |-> FALSE, gradleDir |-> FALSE, gradlew |-> FALSE, ret |-> FALSE,
     spawned |-> FALSE]

MainIdle ==
    /\ pc = "none" /\ trace = <<>> /\ failedAt = None /\ exitStatus = {}
    /\ successReported = FALSE /\ runtimeCopied = FALSE /\ fsdirs = {}
    /\ build = NoBuild /\ permFailed = {}

TarIdle ==
    /\ tpc = "none" /\ archive = <<>> /\ tidx = 1 /\ written = {}

DlIdle ==
    /\ dlpc = "idle" /\ dlDest = "openjdk.tar.gz" /\ dlExp = None /\ dlLabel = None
    /\ dlInit = Absent /\ events = <<>> /\ readErr = FALSE /\ netTotal = 0

(***************************************************************************)
(* Checksum Verifier                                                       *)
(***************************************************************************)

\* verify_checksum: True iff the file could be read and its digest equals the
\* expected one; an exception of calculate_sha256 is caught and gives False.
VerifyChecksum(content, expected_sha256, readOk) ==
    IF ~readOk THEN FALSE
    ELSE CalculateSha256(content) = expected_sha256

(***************************************************************************)
(* Downloader                                                              *)
(***************************************************************************)

\* The condition guarding both verifications in download_file.
ShouldVerify(expected_sha256, file_name) ==
    Truthy(expected_sha256) /\ Truthy(file_name)

\* Lines 140-148: the existence check and the verification of a cached file.
DlCheckExisting ==
    /\ dlpc = "L140"
    /\ IF files[dlDest] # Absent /\ ShouldVerify(dlExp, dlLabel)
       THEN \E readOk \in BOOLEAN :
              /\ readErr' = (readErr \/ ~readOk)
              /\ dlpc' = IF VerifyChecksum(files[dlDest], dlExp, readOk)
                         THEN "returned" ELSE "L146"
       ELSE /\ dlpc' = "L157"
            /\ UNCHANGED readErr
    /\ UNCHANGED <<files, dlDest, dlExp, dlLabel, dlInit, events, netTotal>>
    /\ UNCHANGED <<mainVars, tarVars>>

\* Line 146: os.remove(dest), then control falls to the try block.
DlRemove ==
    /\ dlpc = "L146"
    /\ files' = [files EXCEPT ![dlDest] = Absent]
    /\ events' = Append(events, "remove")
    /\ dlpc' = "L157"
    /\ UNCHANGED <<dlDest, dlExp, dlLabel, dlInit, readErr, netTotal>>
    /\ UNCHANGED <<mainVars, tarVars>>

\* Lines 149-157 and 163-165: urlretrieve(url, dest). The request fails before
\* the file is opened ("connect"), breaks off leaving a partial file ("short"),
\* or delivers a content ("ok"); a failure is re-raised by the except block.
DlFetch ==
    /\ dlpc = "L157"
    /\ events' = Append(events, "fetch")
    /\ netTotal' = netTotal + 1
    /\ \E outcome \in {"connect", "short", "ok"}, c \in Contents :
         CASE outcome = "connect" ->
                /\ c = "c1"      \* nothing is delivered: one case, not one per c
                /\ UNCHANGED files
                /\ dlpc' = "raised"
           [] outcome = "short" ->
                /\ files' = [files EXCEPT ![dlDest] = c]
                /\ dlpc' = "raised"
           [] outcome = "ok" ->
                /\ files' = [files EXCEPT ![dlDest] = c]
                /\ dlpc' = IF ShouldVerify(dlExp, dlLabel) THEN "L160" ELSE "returned"
    /\ UNCHANGED <<dlDest, dlExp, dlLabel, dlInit, readErr>>
    /\ UNCHANGED <<mainVars, tarVars>>

\* Lines 160-165: the verification of the freshly downloaded file.
DlVerifyFresh ==
    /\ dlpc = "L160"
    /\ \E readOk \in BOOLEAN :
         /\ readErr' = (readErr \/ ~readOk)
         /\ dlpc' = IF VerifyChecksum(files[dlDest], dlExp, readOk)
                    THEN "returned" ELSE "raised"
    /\ UNCHANGED <<files, dlDest, dlExp, dlLabel, dlInit, events, netTotal>>
    /\ UNCHANGED <<mainVars, tarVars>>

\* download_file has returned normally / has raised.
DlReturned == dlpc = "returned"
DlRaised == dlpc = "raised"
DlFinished == DlReturned \/ DlRaised

(***************************************************************************)
(* Permission Setter                                                       *)
(***************************************************************************)

\* add_execute_permissions without the `raise` of line 137: the error is only
\* printed.
AddExecutePermissionsSwallowed(chmodOk) == "ok"

\* add_execute_permissions: chmod +x with check=True; a failing chmod (path
\* missing, change denied) is printed and re-raised.
AddExecutePermissions(chmodOk) == IF chmodOk THEN "ok" ELSE "raised"

(***************************************************************************)
(* Native Build Invoker                                                    *)
(***************************************************************************)

\* The ways subprocess.run(["./gradlew", "buildNatives"], ...) ends: exit status
\* zero, a non-zero exit status, or an OSError because the program cannot be
\* started.
SpawnOutcomes == {"rc0", "rc1", "oserror"}

\* build_native_binaries. gradleDirExists, gradlewExists: os.path.exists of
\* support/gradle and of support/gradle/gradlew; chmodOk: whether chmod +x of
\* gradlew succeeds; spawn: how subprocess.run ends if it is called.
\* ret is the value returned, chmodCalled whether add_execute_permissions was
\* called on gradlew, spawned whether subprocess.run was called. An exception
\* of add_execute_permissions is caught by the except block of line 127.
BuildNativeBinaries(gradleDirExists, gradlewExists, chmodOk, spawn) ==
    IF ~gradleDirExists
    THEN [ret |-> FALSE, chmodCalled |-> FALSE, spawned |-> FALSE]
    ELSE IF gradlewExists /\ AddExecutePermissions(chmodOk) = "raised"
    THEN [ret |-> FALSE, chmodCalled |-> TRUE, spawned |-> FALSE]
    ELSE [ret |-> (spawn = "rc0"), chmodCalled |-> gradlewExists, spawned |-> TRUE]

(***************************************************************************)
(* Orchestrator                                                            *)
(***************************************************************************)

\* The work and bundle directories main() removes and recreates.
Dirs == {"jdk_dir", "jdk_final", "ghidra_dir", "ghidra_final"}

\* The phases of main(), in the order of its statements.
PhaseOrder ==
    <<"skeleton", "jdk_download", "jdk_extract", "jdk_install",
      "ghidra_download", "ghidra_extract", "ghidra_install",
      "build", "perm_launch", "perm_run", "success">>

\* The exit status sys.exit(arg) gives the process: None is status 0, any
\* other object of the model (a message) is status 1.
SysExitStatus(arg) == IF arg = None THEN 0 ELSE 1

\* The except block of the first try without its exit(): control would reach
\* the second try.
ExceptRuntimeMissingExit == [pc |-> "ghidra_download", status |-> {}]

\* Lines 207-209, the except block of the first try: print, exit().
ExceptRuntime == [pc |-> "exited", status |-> {SysExitStatus(None)}]

\* Lines 239-241, the except block of the second try: print, exit().
ExceptApplication == [pc |-> "exited", status |-> {SysExitStatus(None)}]

\* A False result of build_native_binaries treated as an error of main.
AfterBuildFatal(ret) == IF ret THEN "perm_launch" ELSE "except2"

\* Lines 230-231: a False result of build_native_binaries only prints a
\* warning; either way main goes on to line 234.
AfterBuild(ret) == "perm_launch"

Started(phase) == trace' = Append(trace, phase)

\* An exception of the phase reaches the except block `handler`.
Fails(phase, handler) ==
    /\ failedAt' = phase
    /\ pc' = handler

\* Line 188: osacompile with check=True.
MainSkeleton ==
    /\ pc = "skeleton"
    /\ Started("skeleton")
    /\ \E ok \in BOOLEAN :
         IF ok THEN pc' = "jdk_download" /\ UNCHANGED failedAt
         ELSE Fails("skeleton", "except1")
    /\ UNCHANGED <<exitStatus, successReported, runtimeCopied, fsdirs, build, permFailed>>
    /\ UNCHANGED <<dlVars, tarVars>>

\* Lines 192-193 and 213-214: the call of download_file.
CallDownload(phase, dest, expected, label, waitpc) ==
    /\ pc = phase
    /\ Started(phase)
    /\ dlpc' = "L140"
    /\ dlDest' = dest
    /\ dlExp' = expected
    /\ dlLabel' = label
    /\ dlInit' = files[dest]
    /\ events' = <<>>
    /\ readErr' = FALSE
    /\ pc' = waitpc
    /\ UNCHANGED <<files, netTotal>>
    /\ UNCHANGED <<failedAt, exitStatus, successReported, runtimeCopied, fsdirs, build, permFailed>>
    /\ UNCHANGED tarVars

\* download_file returns to main, or its exception reaches the except block.
DownloadDone(phase, waitpc, nextpc, handler) ==
    /\ pc = waitpc
    /\ DlFinished
    /\ dlpc' = "idle"
    /\ IF DlReturned THEN pc' = nextpc /\ UNCHANGED failedAt
       ELSE Fails(phase, handler)
    /\ UNCHANGED <<files, dlDest, dlExp, dlLabel, dlInit, events, readErr, netTotal>>
    /\ UNCHANGED <<trace, exitStatus, successReported, runtimeCopied, fsdirs, build, permFailed>>
    /\ UNCHANGED tarVars

\* Lines 195-198 and 216-219: rmtree of the extraction directory if it exists,
\* makedirs, extract. The archive goes through the extractor, which raises or
\* returns.
Extract(phase, dir, nextpc, handler) ==
    /\ pc = phase
    /\ Started(phase)
    /\ \E outcome \in {"ok", "rmtree_err", "extract_err"} :
         CASE outcome = "rmtree_err" ->
                /\ dir \in fsdirs
                /\ UNCHANGED fsdirs
                /\ Fails(phase, handler)
           [] outcome = "extract_err" ->
                /\ fsdirs' = fsdirs \cup {dir}
                /\ Fails(phase, handler)
           [] outcome = "ok" ->
                /\ fsdirs' = fsdirs \cup {dir}
                /\ pc' = nextpc
                /\ UNCHANGED failedAt
    /\ UNCHANGED <<exitStatus, successReported, runtimeCopied, build, permFailed>>
    /\ UNCHANGED <<dlVars, tarVars>>

\* Lines 199-205 and 220-226: os.listdir(dir)[0], rmtree of the bundle
\* sub-directory if it exists, copytree.
Install(phase, final, nextpc, handler, isRuntime) ==
    /\ pc = phase
    /\ Started(phase)
    /\ \E outcome \in {"ok", "listdir_err", "rmtree_err", "copy_err"} :
         CASE outcome = "listdir_err" ->
                /\ UNCHANGED <<fsdirs, runtimeCopied>>
                /\ Fails(phase, handler)
           [] outcome = "rmtree_err" ->
                /\ final \in fsdirs
                /\ UNCHANGED <<fsdirs, runtimeCopied>>
                /\ Fails(phase, handler)
           [] outcome = "copy_err" ->
                /\ fsdirs' = fsdirs \cup {final}
                /\ UNCHANGED runtimeCopied
                /\ Fails(phase, handler)
           [] outcome = "ok" ->
                /\ fsdirs' = fsdirs \cup {final}
                /\ runtimeCopied' = (runtimeCopied \/ isRuntime)
                /\ pc' = nextpc
                /\ UNCHANGED failedAt
    /\ UNCHANGED <<exitStatus, successReported, build, permFailed>>
    /\ UNCHANGED <<dlVars, tarVars>>

MainDownloadJdk ==
    CallDownload("jdk_download", "openjdk.tar.gz", java_expected_sha256, "OpenJDK", "jdk_wait")
MainDownloadJdkDone == DownloadDone("jdk_download", "jdk_wait", "jdk_extract", "except1")
MainExtractJdk == Extract("jdk_extract", "jdk_dir", "jdk_install", "except1")
MainInstallJdk == Install("jdk_install", "jdk_final", "ghidra_download", "except1", TRUE)

\* Lines 207-209.
MainExcept1 ==
    /\ pc = "except1"
    /\ pc' = ExceptRuntime.pc
    /\ exitStatus' = ExceptRuntime.status
    /\ UNCHANGED <<trace, failedAt, successReported, runtimeCopied, fsdirs, build, permFailed>>
    /\ UNCHANGED <<dlVars, tarVars>>

MainDownloadGhidra ==
    CallDownload("ghidra_download", "ghidra.zip", ghidra_expected_sha256, "Ghidra", "ghidra_wait")
MainDownloadGhidraDone == DownloadDone("ghidra_download", "ghidra_wait", "ghidra_extract", "except2")
MainExtractGhidra == Extract("ghidra_extract", "ghidra_dir", "ghidra_install", "except2")
MainInstallGhidra == Install("ghidra_install", "ghidra_final", "build", "except2", FALSE)

\* Lines 229-231: build_native_binaries on the copied application. What the
\* copied tree holds and how chmod and the build tool behave is the
\* environment's choice; gradlew lies inside support/gradle, and a gradlew
\* that does not exist cannot be started.
MainBuild ==
    /\ pc = "build"
    /\ Started("build")
    /\ \E gradleDirExists \in BOOLEAN, gradlewExists \in BOOLEAN,
          chmodOk \in BOOLEAN, spawn \in SpawnOutcomes :
         /\ gradlewExists => gradleDirExists
         /\ ~gradlewExists => spawn = "oserror"
         /\ LET r == BuildNativeBinaries(gradleDirExists, gradlewExists, chmodOk, spawn)
            IN /\ build' = [done |-> TRUE,
                            gradleDir |-> gradleDirExists, gradlew |-> gradlewExists,
                            ret |-> r.ret, spawned |-> r.spawned]
               /\ permFailed' = IF r.chmodCalled /\ ~chmodOk
                                THEN permFailed \cup {"gradlew"} ELSE permFailed
               /\ pc' = AfterBuild(r.ret)
               /\ failedAt' = IF AfterBuild(r.ret) = "except2" THEN "build" ELSE failedAt
    /\ UNCHANGED <<exitStatus, successReported, runtimeCopied, fsdirs>>
    /\ UNCHANGED <<dlVars, tarVars>>

\* Lines 234 and 235: add_execute_permissions on a launcher script.
Permission(phase, path, nextpc) ==
    /\ pc = phase
    /\ Started(phase)
    /\ \E chmodOk \in BOOLEAN :
         /\ permFailed' = IF chmodOk THEN permFailed ELSE permFailed \cup {path}
         /\ IF AddExecutePermissions(chmodOk) = "raised"
            THEN Fails(phase, "except2")
            ELSE pc' = nextpc /\ UNCHANGED failedAt
    /\ UNCHANGED <<exitStatus, successReported, runtimeCopied, fsdirs, build>>
    /\ UNCHANGED <<dlVars, tarVars>>

MainPermLaunch == Permission("perm_launch", "launch.sh", "perm_run")
MainPermRun == Permission("perm_run", "ghidraRun", "success")

\* Line 237, after which main() returns and the interpreter ends normally.
MainReport ==
    /\ pc = "success"
    /\ Started("success")
    /\ successReported' = TRUE
    /\ pc' = "exited"
    /\ exitStatus' = {0}
    /\ UNCHANGED <<failedAt, runtimeCopied, fsdirs, build, permFailed>>
    /\ UNCHANGED <<dlVars, tarVars>>

\* Lines 239-241.
MainExcept2 ==
    /\ pc = "except2"
    /\ pc' = ExceptApplication.pc
    /\ exitStatus' = ExceptApplication.status
    /\ UNCHANGED <<trace, failedAt, successReported, runtimeCopied, fsdirs, build, permFailed>>
    /\ UNCHANGED <<dlVars, tarVars>>

\* The process starts in a fresh working directory or in one a previous run
\* has left behind: any cached archives, any of the directories.
Init ==
    /\ files \in [ArchivePaths -> Contents \cup {Absent}]
    /\ DlIdle
    /\ pc = "skeleton" /\ trace = <<>> /\ failedAt = None /\ exitStatus = {}
    /\ successReported = FALSE /\ runtimeCopied = FALSE
    /\ fsdirs \in SUBSET Dirs
    /\ build = NoBuild /\ permFailed = {}
    /\ TarIdle

Next ==
    \/ MainSkeleton
    \/ MainDownloadJdk \/ MainDownloadJdkDone \/ MainExtractJdk \/ MainInstallJdk
    \/ MainExcept1
    \/ MainDownloadGhidra \/ MainDownloadGhidraDone \/ MainExtractGhidra \/ MainInstallGhidra
    \/ MainBuild \/ MainPermLaunch \/ MainPermRun \/ MainReport
    \/ MainExcept2
    \/ DlCheckExisting \/ DlRemove \/ DlFetch \/ DlVerifyFresh

Spec == Init /\ [][Next]_vars

(***************************************************************************)
(* Archive Extractor, gzip-tar variant                                     *)
(*                                                                         *)
(* extract_tar_gz is tarfile.extractall(dest_dir, filter='data'). A path   *)
(* is the sequence of its components from the filesystem root; a member    *)
(* name is a flag for a leading "/" and the components after it. The       *)
(* members of the model are regular files and there are no symbolic links  *)
(* in the tree, so realpath of a path is the path with its ".." resolved.  *)
(***************************************************************************)

\* dest_dir of the call in main(): jdk_dir = <cwd>/ghidra_install/jdk.
DestDir == <<"cwd", "ghidra_install", "jdk">>

\* The member names archives are built from: the two names of the spec's
\* scenario, and names that stay inside, leave and re-enter, or leave the
\* destination; each also with a leading "/".
MemberSegs ==
    { <<"payload", "bin", "tool">>,
      <<"..", "..", "etc", "evil">>,
      <<"etc", "evil">>,
      <<"..", "jdk", "tool">>,
      <<"payload", "..", "..", "evil">> }

Members == [abs : BOOLEAN, segs : MemberSegs]

\* The longest archive of the model.
MaxMembers == 2

Archives == UNION {[1..n -> Members] : n \in 0..MaxMembers}

IsPrefix(p, q) == Len(p) <= Len(q) /\ SubSeq(q, 1, Len(p)) = p

\* The path reached from directory base by walking the components segs: ".."
\* goes to the parent (the root is its own parent).
RECURSIVE NormPath(_, _)
NormPath(base, segs) ==
    IF segs = <<>> THEN base
    ELSE IF Head(segs) = ".."
    THEN NormPath(IF base = <<>> THEN <<>> ELSE SubSeq(base, 1, Len(base) - 1), Tail(segs))
    ELSE NormPath(Append(base, Head(segs)), Tail(segs))

\* os.path.join(path, member.name) as the operating system resolves it: an
\* absolute name replaces the directory it is joined to.
JoinPath(base, member) ==
    IF member.abs THEN NormPath(<<>>, member.segs) ELSE NormPath(base, member.segs)

\* No filter (tarfile's fully_trusted): the member as it is in the archive.
FullyTrustedFilter(member, dest_path) == [rejected |-> FALSE, member |-> member]

\* tarfile's 'data' filter on a regular file: leading slashes are stripped
\* from the name; the member is refused (OutsideDestinationError) when
\* realpath(join(dest_path, name)) is not below dest_path, and otherwise
\* extracted under the stripped name.
DataFilter(member, dest_path) ==
    LET stripped == [abs |-> FALSE, segs |-> member.segs]
        target_path == NormPath(dest_path, stripped.segs)
    IN IF ~IsPrefix(dest_path, target_path)
       THEN [rejected |-> TRUE, member |-> member]
       ELSE [rejected |-> FALSE, member |-> stripped]

\* Line 179: tarfile.open(file_path, 'r:gz'); a file that is no gzip-tar
\* archive raises, and the except block re-raises.
TarOpen ==
    /\ tpc = "L179"
    /\ \E ok \in BOOLEAN : tpc' = IF ok THEN "L180" ELSE "raised"
    /\ UNCHANGED <<archive, tidx, written>>
    /\ UNCHANGED <<dlVars, mainVars>>

\* Line 180, one member of extractall: the filter, then the write of the
\* member at join(dest_dir, name). A refusal by the filter is raised (the
\* default errorlevel), as is an error of the write; lines 181-183 re-raise.
TarMember ==
    /\ tpc = "L180"
    /\ tidx <= Len(archive)
    /\ LET f == DataFilter(archive[tidx], DestDir)
       IN IF f.rejected
          THEN /\ tpc' = "raised"
               /\ UNCHANGED <<tidx, written>>
          ELSE \E ioOk \in BOOLEAN :
                 IF ioOk
                 THEN /\ written' = written \cup
                            {[idx |-> tidx, path |-> JoinPath(DestDir, f.member)]}
                      /\ tidx' = tidx + 1
                      /\ UNCHANGED tpc
                 ELSE /\ tpc' = "raised"
                      /\ UNCHANGED <<tidx, written>>
    /\ UNCHANGED archive
    /\ UNCHANGED <<dlVars, mainVars>>

\* Line 180: extractall has gone through every member; extract_tar_gz returns.
TarReturn ==
    /\ tpc = "L180"
    /\ tidx > Len(archive)
    /\ tpc' = "returned"
    /\ UNCHANGED <<archive, tidx, written>>
    /\ UNCHANGED <<dlVars, mainVars>>

(***************************************************************************)
(* SpecTar: one call extract_tar_gz(file_path, dest_dir)                   *)
(***************************************************************************)
InitTar ==
    /\ tpc = "L179"
    /\ archive \in Archives
    /\ tidx = 1
    /\ written = {}
    /\ files = [p \in ArchivePaths |-> Absent]
    /\ DlIdle
    /\ MainIdle

NextTar == TarOpen \/ TarMember \/ TarReturn

SpecTar == InitTar /\ [][NextTar]_vars

(***************************************************************************)
(* SpecDL: one call download_file(url, dest, expected_sha256, file_name)   *)
(***************************************************************************)
InitDL ==
    /\ files \in [ArchivePaths -> Contents \cup {Absent}]
    /\ files["ghidra.zip"] = Absent
    /\ dlpc = "L140"
    /\ dlDest = "openjdk.tar.gz"
    /\ dlExp \in ExpectedArgs
    /\ dlLabel \in LabelArgs
    /\ dlInit = files[dlDest]
    /\ events = <<>>
    /\ readErr = FALSE
    /\ netTotal = 0
    /\ MainIdle
    /\ TarIdle

NextDL == DlCheckExisting \/ DlRemove \/ DlFetch \/ DlVerifyFresh

SpecDL == InitDL /\ [][NextDL]_vars

(***************************************************************************)
(* Properties                                                              *)
(***************************************************************************)

Range(seq) == {seq[i] : i \in 1..Len(seq)}

\* The file at dest exists and has the expected digest.
DestMatches == files[dlDest] # Absent /\ CalculateSha256(files[dlDest]) = dlExp

\* download_file was entered with a file at dest / with a file at dest whose
\* digest equals the expected one.
CachedAtEntry == dlInit # Absent
CachedMatchedAtEntry == dlInit # Absent /\ CalculateSha256(dlInit) = dlExp

\* C1 (checked under SpecDL): whenever download_file returns normally from a
\* call that was given a digest, the file at dest exists and its SHA-256
\* digest equals that digest, for every label argument.
C1_ReturnImpliesDigest ==
    (DlReturned /\ dlExp \in Digests) => DestMatches

\* C2 (checked under SpecDL): when the file at dest exists on entry with the
\* digest that was given, and every read of it succeeds, download_file makes
\* no network request, leaves the file as it was, and returns normally.
C2_CachedMatchNoNetwork ==
    (dlExp \in Digests /\ CachedMatchedAtEntry /\ ~readErr) =>
        /\ events = <<>>
        /\ files[dlDest] = dlInit
        /\ DlFinished => DlReturned

\* C3 (checked under SpecDL): when the file at dest exists on entry and no
\* digest is given, download_file makes no network request, leaves the file as
\* it was, and returns normally.
C3_CachedNoDigestSkips ==
    (CachedAtEntry /\ dlExp = None) =>
        /\ events = <<>>
        /\ files[dlDest] = dlInit
        /\ DlFinished => DlReturned

\* C4 (checked under SpecDL): when the file at dest exists on entry with a
\* digest other than the one given (and every read of it succeeds), a finished
\* invocation has removed the file and then requested the URL, once each and in
\* this order, and it has raised unless the fetched file has the given digest.
C4_DeleteThenFetchOnce ==
    (dlExp \in Digests /\ CachedAtEntry /\ ~CachedMatchedAtEntry /\ ~readErr
        /\ DlFinished) =>
        /\ events = <<"remove", "fetch">>
        /\ ~DestMatches => DlRaised

\* The name of the member resolves outside dest_dir once its leading slashes
\* are stripped.
EscapesDest(member) == ~IsPrefix(DestDir, NormPath(DestDir, member.segs))

WrittenIdx == {w.idx : w \in written}

C6_PhasesInOrderFailureTerminal ==
    /\ IsPrefix(trace, PhaseOrder)
    /\ failedAt \notin {None, "build"} =>
         /\ trace # <<>>
         /\ trace[Len(trace)] = failedAt
         /\ ~successReported
         /\ pc \in {"except1", "except2", "exited"}
    /\ failedAt = "skeleton" => (netTotal = 0 /\ dlpc = "idle")
    /\ "ghidra_download" \in Range(trace) => runtimeCopied
    /\ successReported => trace = PhaseOrder

\* The runtime extraction failed and the process has ended there.
C6_Witness ==
    /\ pc = "exited"
    /\ failedAt = "jdk_extract"
    /\ trace = <<"skeleton", "jdk_download", "jdk_extract">>

LauncherPaths == {"launch.sh", "ghidraRun"}

\* C7 (checked under Spec): after build_native_binaries has run, whatever it
\* returned, main() is at or past the launcher permission phase without the
\* build counting as a failure, and a finished process has reported success
\* exactly if chmod succeeded on both launcher scripts.
C7_BuildFailureNotFatal ==
    build.done =>
        /\ failedAt # "build"
        /\ pc = "perm_launch" \/ "perm_launch" \in Range(trace)
        /\ pc = "exited" => (successReported <=> permFailed \cap LauncherPaths = {})

\* The build tool was started and failed, and the installation reported
\* success.
C7_Witness ==
    /\ pc = "exited"
    /\ build.done /\ build.spawned /\ ~build.ret
    /\ successReported

\* C8 (checked under Spec): a process that has ended has exit status zero
\* exactly if it reported success; an aborted run has a non-zero status.
C8_AbortExitsNonzero ==
    pc = "exited" => (exitStatus = {0} <=> successReported)

\* C9 (checked under Spec): when gradlew does not exist, build_native_binaries
\* returns False without calling subprocess.run.
C9_NoSpawnWithoutWrapper ==
    (build.done /\ ~build.gradlew) => (~build.ret /\ ~build.spawned)

\* C10 as stated (checked under Spec): once chmod has failed inside any call
\* of add_execute_permissions, on a launcher script or on gradlew, the run is
\* in an except block of main or has ended, and success is never reported.
C10_EveryPermissionFailureFatal ==
    permFailed # {} =>
        /\ ~successReported
        /\ pc \in {"except2", "exited"}

\* The phase of main() that sets the permission of a launcher script.
PermPhase(path) == IF path = "launch.sh" THEN "perm_launch" ELSE "perm_run"

\* C10 as amended (checked under Spec): a chmod failure on a launcher script
\* aborts the run in that phase and success is never reported; a chmod failure
\* on gradlew makes build_native_binaries return False without starting the
\* build tool, and does not count as a failure of main().
C10_LauncherPermissionFailureFatal ==
    /\ \A path \in permFailed \cap LauncherPaths :
         /\ failedAt = PermPhase(path)
         /\ trace[Len(trace)] = PermPhase(path)
         /\ pc \in {"except2", "exited"}
         /\ ~successReported
    /\ "gradlew" \in permFailed =>
         /\ build.done /\ ~build.ret /\ ~build.spawned
         /\ failedAt # "build"
         /\ pc = "perm_launch" \/ "perm_launch" \in Range(trace)

\* chmod failed on gradlew and the run went on; it then failed on launch.sh
\* and the run ended.
C10_Witness ==
    /\ permFailed = {"gradlew", "launch.sh"}
    /\ pc = "exited"

=============================================================================
